---- MODULE Spec2Model ----
(***************************************************************************)
(* OchenSlab<T>: a fixed-capacity slab (src/src/lib.rs).                   *)
(*                                                                         *)
(* A Vec is modelled 0-indexed where the code indexes it (storage is a     *)
(* function on 0..len-1) and as a sequence where the code only pushes and  *)
(* pops (free).  An Option is a record: None, or Some(v).                  *)
(***************************************************************************)
EXTENDS Integers, Sequences, FiniteSets

\* Largest capacity passed to with_capacity.
MaxCapacity == 3

\* The element type T is 1..MaxValue.
MaxValue == 2

T == 1..MaxValue

\* Indices callers pass: 0..MaxCapacity, so that every capacity has an
\* index >= capacity among them.
Indices == 0..MaxCapacity

---------------------------------------------------------------------------
\* Option<_>

None == [some |-> FALSE]

Some(v) == [some |-> TRUE, val |-> v]

\* Vec::len of a 0-indexed vector.
VecLen(vec) == Cardinality(DOMAIN vec)

\* Vec::get / Vec::get_mut: None when index is out of bounds.
VecGet(vec, index) == IF index \in DOMAIN vec THEN Some(vec[index]) ELSE None

---------------------------------------------------------------------------
\* What a usize subtraction below zero yields here: the build either panics
\* or wraps to a value near 2^64, which is no index of any slab.
Underflow == -1

\* a - b in usize.
usize_sub(a, b) ==
    IF a = Underflow \/ b = Underflow \/ a < b THEN Underflow ELSE a - b

\* Mutant of resize_with_free: the closure computes capacity - i.
RECURSIVE resize_with_free_off_by_one(_, _, _, _)
resize_with_free_off_by_one(vec, new_len, capacity, i) ==
    IF Len(vec) >= new_len
    THEN vec
    ELSE resize_with_free_off_by_one(Append(vec, usize_sub(capacity, i)),
                                     new_len, capacity, i + 1)

\* The closure of free.resize_with (lib.rs:46-50), called until the vector
\* has new_len elements: the call number i appends capacity - 1 - i.
RECURSIVE resize_with_free(_, _, _, _)
resize_with_free(vec, new_len, capacity, i) ==
    IF Len(vec) >= new_len
    THEN vec
    ELSE resize_with_free(Append(vec, usize_sub(usize_sub(capacity, 1), i)),
                          new_len, capacity, i + 1)

\* Mutant of with_capacity: free is resized to capacity + 1, one closure
\* call too many.
with_capacity_extra(capacity) ==
    [storage |-> [k \in 0..(capacity - 1) |-> None],
     free    |-> resize_with_free(<<>>, capacity + 1, capacity, 0)]

\* Mutant of with_capacity: the free list is one index short.
with_capacity_short(capacity) ==
    [storage |-> [k \in 0..(capacity - 1) |-> None],
     free    |-> resize_with_free(<<>>, capacity - 1, capacity, 0)]

\* Mutant of with_capacity: the closure yields i, the free list ascends.
with_capacity_ascending(capacity) ==
    [storage |-> [k \in 0..(capacity - 1) |-> None],
     free    |-> [k \in 1..capacity |-> k - 1]]

with_capacity(capacity) ==
    [storage |-> [k \in 0..(capacity - 1) |-> None],
     free    |-> resize_with_free(<<>>, capacity, capacity, 0)]

len(self) == VecLen(self.storage) - Len(self.free)

\* Mutant of get: looks the slot up one place too far.
get_next(self, index) ==
    LET slot == VecGet(self.storage, index + 1)
    IN  IF ~slot.some THEN None ELSE slot.val

\* Mutant of get: an index past the end is clamped to the last slot.
get_clamped(self, index) ==
    LET last == VecLen(self.storage) - 1
        slot == VecGet(self.storage, IF index > last THEN last ELSE index)
    IN  IF ~slot.some THEN None ELSE slot.val

\* self.storage.get(index)?.as_ref()
get(self, index) ==
    LET slot == VecGet(self.storage, index)
    IN  IF ~slot.some THEN None ELSE slot.val

\* Mutant of get_mut: looks the slot up one place too far.
get_mut_next(self, index) ==
    LET slot == VecGet(self.storage, index + 1)
    IN  IF ~slot.some THEN None ELSE slot.val

\* self.storage.get_mut(index)?.as_mut(): the same lookup as get.
get_mut(self, index) ==
    LET slot == VecGet(self.storage, index)
    IN  IF ~slot.some THEN None ELSE slot.val

\* *slab.get_mut(index)? = w : the caller's write through the reference
\* that get_mut returned (no write when it returned None).
write_mut(self, index, w) ==
    IF get_mut(self, index).some
    THEN [self EXCEPT !.storage[index] = Some(w)]
    ELSE self

\* Mutant of insert: stores at free.len() after the pop, not at the popped
\* index.
insert_wrong_slot(self, t) ==
    IF self.free = <<>>
    THEN [self |-> self, ret |-> None]
    ELSE LET index  == self.free[Len(self.free)]
             popped == [self EXCEPT !.free = SubSeq(self.free, 1, Len(self.free) - 1)]
             where  == Len(popped.free)
         IN  IF ~VecGet(popped.storage, index).some
             THEN [self |-> popped, ret |-> None]
             ELSE [self |-> [popped EXCEPT !.storage[where] = Some(t)],
                   ret  |-> Some(index)]

\* Mutant of insert: free.last() instead of free.pop().
insert_no_pop(self, t) ==
    IF self.free = <<>>
    THEN [self |-> self, ret |-> None]
    ELSE LET index == self.free[Len(self.free)]
         IN  IF ~VecGet(self.storage, index).some
             THEN [self |-> self, ret |-> None]
             ELSE [self |-> [self EXCEPT !.storage[index] = Some(t)],
                   ret  |-> Some(index)]

\* Mutant of insert: a full slab overwrites slot 0 (free.pop().unwrap_or(0)).
insert_overwrite(self, t) ==
    LET index  == IF self.free = <<>> THEN 0 ELSE self.free[Len(self.free)]
        popped == IF self.free = <<>>
                  THEN self
                  ELSE [self EXCEPT !.free = SubSeq(self.free, 1, Len(self.free) - 1)]
    IN  IF ~VecGet(popped.storage, index).some
        THEN [self |-> popped, ret |-> None]
        ELSE [self |-> [popped EXCEPT !.storage[index] = Some(t)],
              ret  |-> Some(index)]

\* Mutant of insert: the popped index is returned but the value is not stored.
insert_drop(self, t) ==
    IF self.free = <<>>
    THEN [self |-> self, ret |-> None]
    ELSE LET index  == self.free[Len(self.free)]
             popped == [self EXCEPT !.free = SubSeq(self.free, 1, Len(self.free) - 1)]
         IN  IF ~VecGet(popped.storage, index).some
             THEN [self |-> popped, ret |-> None]
             ELSE [self |-> popped, ret |-> Some(index)]

\* Mutant of insert: takes the oldest free index, free.remove(0), instead of
\* free.pop().
insert_fifo(self, t) ==
    IF self.free = <<>>
    THEN [self |-> self, ret |-> None]
    ELSE LET index  == self.free[1]
             popped == [self EXCEPT !.free = Tail(self.free)]
         IN  IF ~VecGet(popped.storage, index).some
             THEN [self |-> popped, ret |-> None]
             ELSE [self |-> [popped EXCEPT !.storage[index] = Some(t)],
                   ret  |-> Some(index)]

\* Mutant of insert: a full slab pushes the value onto storage.
insert_grow(self, t) ==
    IF self.free = <<>>
    THEN LET n == VecLen(self.storage)
         IN  [self |-> [self EXCEPT !.storage =
                           [k \in 0..n |-> IF k = n THEN Some(t) ELSE self.storage[k]]],
              ret  |-> Some(n)]
    ELSE LET index  == self.free[Len(self.free)]
             popped == [self EXCEPT !.free = SubSeq(self.free, 1, Len(self.free) - 1)]
         IN  IF ~VecGet(popped.storage, index).some
             THEN [self |-> popped, ret |-> None]
             ELSE [self |-> [popped EXCEPT !.storage[index] = Some(t)],
                   ret  |-> Some(index)]

\* insert: the result is the slab afterwards and the returned Option<usize>.
insert(self, t) ==
    IF self.free = <<>>
    THEN [self |-> self, ret |-> None]
    ELSE LET index  == self.free[Len(self.free)]
             popped == [self EXCEPT !.free = SubSeq(self.free, 1, Len(self.free) - 1)]
         IN  IF ~VecGet(popped.storage, index).some
             THEN [self |-> popped, ret |-> None]
             ELSE [self |-> [popped EXCEPT !.storage[index] = Some(t)],
                   ret  |-> Some(index)]

\* Mutant of remove: take() without the second ?, so an empty slot's index
\* is pushed again.
remove_double_free(self, index) ==
    LET slot == VecGet(self.storage, index)
    IN  IF ~slot.some
        THEN [self |-> self, ret |-> None]
        ELSE [self |-> [self EXCEPT !.storage[index] = None,
                                    !.free = Append(self.free, index)],
              ret  |-> slot.val]

\* Mutant of remove: the index is not pushed onto free.
remove_no_push(self, index) ==
    LET slot == VecGet(self.storage, index)
    IN  IF ~slot.some
        THEN [self |-> self, ret |-> None]
        ELSE [self |-> [self EXCEPT !.storage[index] = None], ret |-> slot.val]

\* Mutant of remove: the value is copied out, the slot is not emptied.
remove_no_take(self, index) ==
    LET slot == VecGet(self.storage, index)
    IN  IF ~slot.some
        THEN [self |-> self, ret |-> None]
        ELSE IF ~slot.val.some
             THEN [self |-> self, ret |-> None]
             ELSE [self |-> [self EXCEPT !.free = Append(self.free, index)],
                   ret  |-> slot.val]

\* Mutant of remove: storage.remove(index) instead of take(), the slots
\* after index shift down.
remove_shift(self, index) ==
    LET slot == VecGet(self.storage, index)
        n    == VecLen(self.storage)
    IN  IF ~slot.some
        THEN [self |-> self, ret |-> None]
        ELSE LET shifted == [self EXCEPT !.storage =
                                [k \in 0..(n - 2) |-> IF k < index
                                                      THEN self.storage[k]
                                                      ELSE self.storage[k + 1]]]
             IN  IF ~slot.val.some
                 THEN [self |-> shifted, ret |-> None]
                 ELSE [self |-> [shifted EXCEPT !.free = Append(shifted.free, index)],
                       ret  |-> slot.val]

\* remove: the result is the slab afterwards and the returned Option<T>.
remove(self, index) ==
    LET slot == VecGet(self.storage, index)
    IN  IF ~slot.some
        THEN [self |-> self, ret |-> None]
        ELSE LET value == slot.val
                 taken == [self EXCEPT !.storage[index] = None]
             IN  IF ~value.some
                 THEN [self |-> taken, ret |-> None]
                 ELSE [self |-> [taken EXCEPT !.free = Append(taken.free, index)],
                       ret  |-> value]

---------------------------------------------------------------------------
VARIABLES
    capacity,   \* the argument with_capacity was called with
    storage,    \* OchenSlab::storage
    free,       \* OchenSlab::free
    op,         \* the last call: its name, arguments and returned value
    fresh,      \* no remove has been called since construction
    issued,     \* while fresh: what the insert calls returned, in order
    freed,      \* the indices remove gave back and insert has not returned
                \* since, oldest first
    alloc,      \* the slots storage's buffer was allocated for
    moved,      \* storage's buffer was reallocated after construction
    stale       \* a caller's handle: the index an insert returned, followed
                \* through its remove and the insert that returns it again

vars == <<capacity, storage, free, op, fresh, issued, freed, alloc, moved, stale>>

Self == [storage |-> storage, free |-> free]

Call(name, index, value, ret) ==
    [name |-> name, index |-> index, value |-> value, ret |-> ret]

\* No argument in that position.
NoArg == -1

\* issued records the first MaxCapacity + 1 insert calls of a fresh slab.
Record(ret) ==
    IF fresh /\ Len(issued) <= MaxCapacity THEN Append(issued, ret) ELSE issued

\* freed after a call that returned ret: a remove that returned a value
\* gave index back, an insert that returned an index took it.
Freed(name, index, ret) ==
    IF ~ret.some
    THEN freed
    ELSE IF name = "remove"
         THEN Append(SelectSeq(freed, LAMBDA k : k # index), index)
         ELSE SelectSeq(freed, LAMBDA k : k # ret.val)

\* A Vec moves its buffer when it has to hold more elements than the
\* buffer was allocated for.
Relocates(vec) == VecLen(vec) > alloc

Handle(stage, index, first, val) ==
    [stage |-> stage, index |-> index, first |-> first, val |-> val]

\* The handle after a call.  An insert that returns k hands out the handle k
\* (stage "held") unless a handle is removed or reissued; remove of the
\* handle's index makes it stale ("removed"); an insert that returns a
\* removed handle's index again reissues it ("reissued").  first is the value
\* the handle was obtained for, val the value last stored under its index.
Stale(name, index, value, ret) ==
    IF name = "insert" /\ ret.some
    THEN IF stale.stage = "removed" /\ stale.index = ret.val
         THEN Handle("reissued", ret.val, stale.first, value)
         ELSE IF stale.stage \in {"none", "held"}
              THEN Handle("held", ret.val, value, value)
              ELSE stale
    ELSE IF name = "remove" /\ ret.some /\ index = stale.index
              /\ stale.stage \in {"held", "reissued"}
         THEN Handle("removed", index, stale.first, stale.val)
         ELSE IF name = "get_mut" /\ ret.some /\ index = stale.index
                   /\ stale.stage \in {"held", "reissued"}
              THEN [stale EXCEPT !.val = value]
              ELSE stale

Init ==
    /\ capacity \in 0..MaxCapacity
    /\ storage = with_capacity(capacity).storage
    /\ free = with_capacity(capacity).free
    /\ op = Call("with_capacity", NoArg, NoArg, None)
    /\ fresh = TRUE
    /\ issued = <<>>
    /\ freed = <<>>
    /\ alloc = capacity
    /\ moved = FALSE
    /\ stale = Handle("none", NoArg, NoArg, NoArg)

Insert ==
    \E t \in T :
        LET r == insert(Self, t)
        IN  /\ storage' = r.self.storage
            /\ free' = r.self.free
            /\ op' = Call("insert", NoArg, t, r.ret)
            /\ issued' = Record(r.ret)
            /\ freed' = Freed("insert", NoArg, r.ret)
            /\ moved' = (moved \/ Relocates(r.self.storage))
            /\ stale' = Stale("insert", NoArg, t, r.ret)
            /\ UNCHANGED <<capacity, fresh, alloc>>

Remove ==
    \E index \in Indices :
        LET r == remove(Self, index)
        IN  /\ storage' = r.self.storage
            /\ free' = r.self.free
            /\ op' = Call("remove", index, NoArg, r.ret)
            /\ fresh' = FALSE
            /\ issued' = <<>>
            /\ freed' = Freed("remove", index, r.ret)
            /\ moved' = (moved \/ Relocates(r.self.storage))
            /\ stale' = Stale("remove", index, NoArg, r.ret)
            /\ UNCHANGED <<capacity, alloc>>

Get ==
    \E index \in Indices :
        /\ op' = Call("get", index, NoArg, get(Self, index))
        /\ UNCHANGED <<capacity, storage, free, fresh, issued, freed, alloc, moved, stale>>

GetMut ==
    \E index \in Indices, w \in T :
        /\ storage' = write_mut(Self, index, w).storage
        /\ free' = write_mut(Self, index, w).free
        /\ op' = Call("get_mut", index, w, get_mut(Self, index))
        /\ moved' = (moved \/ Relocates(write_mut(Self, index, w).storage))
        /\ stale' = Stale("get_mut", index, w, get_mut(Self, index))
        /\ UNCHANGED <<capacity, fresh, issued, freed, alloc>>

LenCall ==
    /\ op' = Call("len", NoArg, NoArg, Some(len(Self)))
    /\ UNCHANGED <<capacity, storage, free, fresh, issued, freed, alloc, moved, stale>>

Next == Insert \/ Remove \/ Get \/ GetMut \/ LenCall

Spec == Init /\ [][Next]_vars

---------------------------------------------------------------------------
\* Helpers of the properties.

\* How often index i is on the free list.
FreeCount(fr, i) == Cardinality({k \in 1..Len(fr) : fr[k] = i})

\* The number of Some entries of storage.
OccupiedCount(self) == Cardinality({i \in DOMAIN self.storage : self.storage[i].some})

\* The call c targets slot j: an insert that returned j, remove(j), or a
\* write through get_mut(j).
Targets(c, j) ==
    \/ c.name = "insert" /\ c.ret.some /\ c.ret.val = j
    \/ c.name = "remove" /\ c.index = j
    \/ c.name = "get_mut" /\ c.index = j

\* C1: non-interference.  A call that targets slot j leaves every occupied
\* slot i # j occupied with the same value: get(i) is the same before and
\* after.
C1_NonInterference ==
    [][\A i \in DOMAIN storage, j \in Indices :
          (i # j /\ storage[i].some /\ Targets(op', j))
              => /\ get(Self', i).some
                 /\ get(Self', i) = get(Self, i)]_vars

\* A remove(j) took a value out while another slot was occupied.
C1_Witness ==
    /\ op.name = "remove" /\ op.ret.some
    /\ \E i \in DOMAIN storage : i # op.index /\ storage[i].some

\* C2: I2.  Every index in 0..capacity-1 whose slot is None is on the free
\* list exactly once, and no index whose slot is Some is on it.
C2_I2 ==
    \A i \in 0..(capacity - 1) :
        LET slot == VecGet(storage, i)
        IN  /\ slot.some
            /\ ~slot.val.some => FreeCount(free, i) = 1
            /\ slot.val.some => FreeCount(free, i) = 0

\* After removes and inserts: a slot occupied, two free, the free list not
\* in its initial order.
C2_Witness ==
    /\ ~fresh
    /\ Len(free) >= 2
    /\ free[1] < free[2]
    /\ \E i \in DOMAIN storage : storage[i].some

\* C3: length invariant.  len() is capacity minus the length of the free
\* list, and the number of occupied slots.
C3_LenInvariant ==
    /\ len(Self) = capacity - Len(free)
    /\ len(Self) = OccupiedCount(Self)

\* len() was called on a partly filled slab after a remove.
C3_Witness ==
    /\ op.name = "len" /\ op.ret = Some(2)
    /\ ~fresh /\ capacity > 2

\* C4: capacity ceiling.  On a fresh slab of capacity C the first C inserts
\* return an index, len() is C after them, and insert C+1 returns None.
C4_CapacityCeiling ==
    fresh =>
        /\ \A n \in 1..Len(issued) :
              /\ n <= capacity => issued[n].some
              /\ n = capacity + 1 => ~issued[n].some
        /\ Len(issued) >= capacity => len(Self) = capacity

\* The largest slab was filled and one more insert was made.
C4_Witness ==
    /\ fresh /\ capacity = MaxCapacity
    /\ Len(issued) = capacity + 1
    /\ op.name = "insert"

\* C5: round trip.  Right after insert(v) returned Some(k), get(k) is
\* Some(v).
C5_RoundTrip ==
    (op.name = "insert" /\ op.ret.some)
        => get(Self, op.ret.val) = Some(op.value)

\* An insert made after a remove call returned an index that get finds
\* occupied.
C5_Witness ==
    /\ op.name = "insert" /\ op.ret.some
    /\ ~fresh
    /\ get(Self, op.ret.val).some

\* C6: successful remove.  remove(i) of a slot occupied with v returns v;
\* afterwards get(i) is None, len() is one less, i is on the free list and
\* an insert succeeds.
C6_RemoveOccupied ==
    [][\A i \in Indices :
          (op'.name = "remove" /\ op'.index = i /\ get(Self, i).some)
              => /\ op'.ret = get(Self, i)
                 /\ ~get(Self', i).some
                 /\ len(Self') = len(Self) - 1
                 /\ FreeCount(free', i) >= 1
                 /\ \A t \in T : insert(Self', t).ret.some]_vars

\* A remove returned the value of a full slab's slot.
C6_Witness ==
    /\ op.name = "remove" /\ op.ret.some
    /\ Len(free) = 1
    /\ ~get(Self, op.index).some

\* C7: failed remove.  remove(index) with index >= capacity or an empty
\* slot returns None and changes neither storage, free nor len(); a
\* second remove of the index just removed returns None and pushes nothing.
C7_RemoveFailed ==
    [][/\ (op'.name = "remove" /\ ~get(Self, op'.index).some)
              => /\ op'.ret = None
                 /\ storage' = storage
                 /\ free' = free
                 /\ len(Self') = len(Self)
       /\ (op.name = "remove" /\ op.ret.some
           /\ op'.name = "remove" /\ op'.index = op.index)
              => /\ op'.ret = None
                 /\ free' = free]_vars

\* A remove of an empty slot inside the capacity returned None.
C7_Witness ==
    /\ op.name = "remove" /\ ~op.ret.some
    /\ op.index \in DOMAIN storage
    /\ FreeCount(free, op.index) = 1
    /\ \E i \in DOMAIN storage : storage[i].some

\* C8: insert on a full slab.  insert returns None exactly when the free
\* list is empty, which is when len() = capacity, and then storage, free
\* and len() are unchanged.
C8_InsertFull ==
    [][op'.name = "insert"
          => /\ (op'.ret = None) <=> (free = <<>>)
             /\ (free = <<>>) <=> (len(Self) = capacity)
             /\ (op'.ret = None)
                   => /\ storage' = storage
                      /\ free' = free
                      /\ len(Self') = len(Self)]_vars

\* An insert into a full slab of positive capacity returned None.
C8_Witness ==
    /\ op.name = "insert" /\ op.ret = None
    /\ capacity > 0
    /\ \A i \in DOMAIN storage : storage[i].some

\* C9: successful insert.  With a free slot, insert(v) returns k < capacity
\* whose slot was empty; afterwards slot k holds v, k is not on the free
\* list and len() is one more.
C9_InsertFree ==
    [][(op'.name = "insert" /\ free # <<>>)
          => /\ op'.ret.some
             /\ op'.ret.val \in 0..(capacity - 1)
             /\ ~get(Self, op'.ret.val).some
             /\ storage'[op'.ret.val] = Some(op'.value)
             /\ FreeCount(free', op'.ret.val) = 0
             /\ len(Self') = len(Self) + 1]_vars

\* An insert made after a remove call filled a slot while another stayed
\* free.
C9_Witness ==
    /\ op.name = "insert" /\ op.ret.some
    /\ ~fresh
    /\ free # <<>>
    /\ storage[op.ret.val] = Some(op.value)

\* C10: ascending initial order.  On a fresh slab the n-th insert, n in
\* 1..capacity, returns index n - 1.
C10_AscendingOrder ==
    fresh => \A n \in 1..Len(issued) :
                 n <= capacity => issued[n] = Some(n - 1)

\* The largest slab was just filled by its first capacity inserts.
C10_Witness ==
    /\ fresh /\ capacity = MaxCapacity
    /\ Len(issued) = capacity
    /\ issued[capacity] = Some(capacity - 1)

\* C11: LIFO reuse.  An insert made while some removed index has not been
\* reissued returns the most recently removed of them; in particular the
\* insert that directly follows a successful remove(i) returns i, and so
\* does one that follows it after calls of get, get_mut and len only.
C11_LifoReuse ==
    [][op'.name = "insert"
          => /\ freed # <<>> => op'.ret = Some(freed[Len(freed)])
             /\ (op.name = "remove" /\ op.ret.some) => op'.ret = Some(op.index)
             /\ (op.name \in {"get", "get_mut", "len"} /\ freed # <<>>)
                    => op'.ret = Some(freed[Len(freed)])]_vars

\* An insert reissued the later of two removed indices; the earlier one,
\* a smaller index, still waits.
C11_Witness ==
    /\ op.name = "insert" /\ op.ret.some
    /\ Len(freed) = 1
    /\ freed[1] < op.ret.val
    /\ FreeCount(free, freed[1]) = 1

\* The occupancy of every slot: TRUE where storage holds Some.
Occupancy(self) == [i \in DOMAIN self.storage |-> self.storage[i].some]

\* C12: lookup.  get(index) and get_mut(index) return the slot's value
\* exactly when index < capacity and the slot is occupied, and None both
\* for index >= capacity and for an empty slot; neither call changes the
\* occupancy of a slot, the free list or len().
C12_Lookup ==
    [][op'.name \in {"get", "get_mut"}
          => /\ op'.ret = IF op'.index < capacity /\ storage[op'.index].some
                          THEN storage[op'.index]
                          ELSE None
             /\ Occupancy(Self') = Occupancy(Self)
             /\ free' = free
             /\ len(Self') = len(Self)]_vars

\* get of the index just past a full slab returned None.
C12_Witness ==
    /\ op.name = "get" /\ op.index = capacity /\ op.ret = None
    /\ capacity > 0
    /\ \A i \in DOMAIN storage : storage[i].some

\* C13: a write through get_mut is observed.  After the caller wrote w
\* through get_mut(i) of an occupied slot, get(i) is Some(w), remove(i)
\* returns Some(w), slot i is occupied, and the free list and len() are
\* unchanged.
C13_MutationObserved ==
    [][(op'.name = "get_mut" /\ get(Self, op'.index).some)
          => /\ get(Self', op'.index) = Some(op'.value)
             /\ remove(Self', op'.index).ret = Some(op'.value)
             /\ storage'[op'.index].some
             /\ free' = free
             /\ len(Self') = len(Self)]_vars

\* get_mut returned the old value of a slot that now holds the different
\* value written.
C13_Witness ==
    /\ op.name = "get_mut" /\ op.ret.some
    /\ op.ret.val # op.value
    /\ get(Self, op.index) = Some(op.value)

\* C14: fixed capacity.  storage has exactly capacity slots, 0..capacity-1,
\* in every state, whatever was called, and len() never exceeds capacity.
C14_FixedCapacity ==
    /\ VecLen(storage) = capacity
    /\ DOMAIN storage = 0..(capacity - 1)
    /\ len(Self) <= capacity

\* After removes and inserts the largest slab is full again and one more
\* insert was refused.
C14_Witness ==
    /\ capacity = MaxCapacity /\ ~fresh
    /\ op.name = "insert" /\ op.ret = None
    /\ len(Self) = capacity

\* C15: storage stability (I4).  storage never needs more slots than its
\* buffer was allocated for, so the buffer is never reallocated: what get
\* and get_mut refer to does not move, whatever insert and remove do.
C15_StorageStable ==
    /\ ~moved
    /\ VecLen(storage) <= alloc

\* An insert filled the last free slot of the largest slab while the other
\* slots held values, in the buffer allocated at construction.
C15_Witness ==
    /\ alloc = MaxCapacity
    /\ op.name = "insert" /\ op.ret.some
    /\ free = <<>>
    /\ VecLen(storage) = alloc
    /\ ~moved

\* C16: per-slot state machine.  A slot goes from Empty to Occupied only in
\* an insert that returns its index and from Occupied to Empty only in a
\* remove of its index that returns a value; no other call changes the
\* occupancy of a slot.
C16_SlotStateMachine ==
    [][/\ DOMAIN storage' = DOMAIN storage
       /\ \A i \in DOMAIN storage :
             /\ (~storage[i].some /\ storage'[i].some)
                    => (op'.name = "insert" /\ op'.ret = Some(i))
             /\ (storage[i].some /\ ~storage'[i].some)
                    => (op'.name = "remove" /\ op'.index = i /\ op'.ret.some)]_vars

\* A remove emptied one slot of the largest slab, the others stay occupied.
C16_Witness ==
    /\ capacity = MaxCapacity
    /\ op.name = "remove" /\ op.ret.some
    /\ ~storage[op.index].some
    /\ OccupiedCount(Self) = capacity - 1
    /\ freed = <<op.index>>

\* C17: stale handles are not detected.  Once the index of a removed handle
\* has been returned by a later insert, get and get_mut of that index
\* return the value now stored there, never None; the history
\* insert(v1) = i, remove(i), insert(v2) = i, get(i) = v2 is reachable.
C17_StaleHandle ==
    stale.stage = "reissued"
        => /\ get(Self, stale.index) = Some(stale.val)
           /\ get_mut(Self, stale.index) = Some(stale.val)
           /\ (op.name \in {"get", "get_mut"} /\ op.index = stale.index)
                  => op.ret.some

\* get(i) with the index of the first insert returned the value v2 of the
\* insert that reused slot i, different from v1.
C17_Witness ==
    /\ stale.stage = "reissued"
    /\ op.name = "get" /\ op.index = stale.index
    /\ op.ret = Some(stale.val)
    /\ stale.val # stale.first

\* C18: a popped index is always storable.  Every element of the free list
\* is an index < capacity of a slot of storage, so an insert that pops an
\* index stores the value: insert returns None only from an empty free
\* list, with nothing popped, and returns an index whenever a slot is free.
C18_PoppedStorable ==
    [][/\ \A k \in 1..Len(free) :
             /\ free[k] \in 0..(capacity - 1)
             /\ VecGet(storage, free[k]).some
       /\ op'.name = "insert"
             => /\ op'.ret = None => (free = <<>> /\ free' = free)
                /\ free # <<>> => (op'.ret.some /\ Len(free') = Len(free) - 1)]_vars

\* In the largest slab, emptied by removes, an insert popped a removed
\* index again and stored its value there.
C18_Witness ==
    /\ capacity = MaxCapacity
    /\ stale.stage = "reissued" /\ stale.index = op.ret.val
    /\ op.name = "insert" /\ op.ret.some
    /\ Len(free) = capacity - 1
    /\ storage[op.ret.val] = Some(op.value)

\* C19: capacity 0 and the arithmetic of construction.  with_capacity(C)
\* calls the closure for i = 0..C-1 only: free has C entries, entry i + 1
\* is C - 1 - i, none of them an underflow; for C = 0 nothing is evaluated,
\* free is empty, len() is 0 and every insert returns None.
C19_Construction ==
    /\ op.name = "with_capacity"
          => /\ Len(free) = capacity
             /\ \A i \in 0..(capacity - 1) :
                   /\ free[i + 1] = capacity - 1 - i
                   /\ free[i + 1] # Underflow
    /\ capacity = 0
          => /\ free = <<>>
             /\ len(Self) = 0
             /\ op.name = "insert" => op.ret = None
             /\ op.name = "len" => op.ret = Some(0)

\* An insert into a slab of capacity 0 returned None.
C19_Witness ==
    /\ capacity = 0
    /\ op.name = "insert" /\ op.ret = None
    /\ len(Self) = 0

====
